---- MODULE Spec2Model ----
(***************************************************************************)
(* Model of the worklog upload pipeline of the minutes repository:         *)
(*   - tempoClient.UploadEntries (tempocloud client): URL construction,    *)
(*     one goroutine per task group, per entry an issue lookup and a       *)
(*     worklog create, every result sent on the shared error channel;      *)
(*   - the duration policy applied while the upload payload is built       *)
(*     (treat-as-billed fold, round-to-closest-minute, conversion to       *)
(*     whole seconds).                                                     *)
(* Durations are counted in ticks of half a second (Second == 2 ticks) so  *)
(* that fractional seconds exist in the model.                             *)
(***************************************************************************)
EXTENDS Integers, Sequences, FiniteSets, TLC

\* ------------------------------------------------------------------------
\* Bounds
\* ------------------------------------------------------------------------
MaxEntries == 3
MaxCap == 1
MaxDuration == 130
MaxMatches == 2
MaxGroupLen == 4
MaxTotal == 4
MaxPageSize == 3
MaxTargetEntries == 2

\* ------------------------------------------------------------------------
\* Program constants
\* ------------------------------------------------------------------------
\* time.Second, in ticks
Second == 2
\* time.Minute, in ticks
Minute == 60 * Second

\* Task keys (Task.ID / Task.Name) of the entries handed to the uploader.
TaskKeys == {"CPT-2014", "CPT-2015"}

\* worklog.Entry, reduced to the field the uploader groups and looks up by.
Entry == [task : TaskKeys]

\* Values an error result can take on the channel.
NilErr == "nil"
ErrUploadEntries == "ErrUploadEntries"
ErrFetchEntries == "ErrFetchEntries"

\* Outcomes of one HTTPClient.Call that was issued: success, a transport or
\* remote failure, or the expiry of the call's own deadline (Timeout).
CallOK == "ok"
CallOutcomes == {CallOK, "error", "deadline"}

VARIABLES
    entries,     \* the worklog.Entries handed to UploadEntries
    capacity,    \* capacity of errChan (0 = unbuffered)
    toRead,      \* number of results the caller will receive before it stops
    cancelled,   \* ctx has been cancelled
    upPc,        \* position of the UploadEntries call itself
    tasks,       \* keys of the group goroutines that were launched
    pc,          \* per group goroutine: position
    idx,         \* per group goroutine: position in its group (1-based)
    err,         \* per group goroutine: the error about to be sent
    inflight,    \* per group goroutine: requests issued and not yet answered
    published,   \* history: every value sent on errChan, in send order
    received,    \* number of values the caller has received
    entryB,      \* duration policy: entry.BillableDuration (ticks)
    entryU,      \* duration policy: entry.UnbillableDuration (ticks)
    optTreat,    \* opts.TreatDurationAsBilled
    optRound,    \* opts.RoundToClosestMinute
    uploadEntry, \* the UploadEntry payload built, or NoPayload
    tracker,     \* per group goroutine: the progress tracker of its entry
    extractIn,   \* task extraction: the entry's matches and the options
    extracted,   \* task extraction: the tasks returned, or NotExtracted
    grouped,     \* grouping: the groups a goroutine is started for, or NotGrouped
    fetchIn,     \* paginated fetch: what the source holds and the page size
    fetch,       \* paginated fetch: state of the page loop
    target,      \* configured upload target (viper "target")
    uploader     \* what getUploader returned, or NotCalled

upVars == <<entries, capacity, toRead, cancelled, upPc, tasks, pc, idx, err,
            inflight, published, received, tracker>>
durVars == <<entryB, entryU, optTreat, optRound, uploadEntry>>
exVars == <<extractIn, extracted>>
fetchVars == <<fetchIn, fetch>>
tgtVars == <<target, uploader>>
\* Everything the upload itself leaves alone.
sideVars == <<entryB, entryU, optTreat, optRound, uploadEntry,
              extractIn, extracted, grouped, fetchIn, fetch, target, uploader>>
vars == <<entries, capacity, toRead, cancelled, upPc, tasks, pc, idx, err,
          inflight, published, received, tracker,
          entryB, entryU, optTreat, optRound, uploadEntry,
          extractIn, extracted, grouped, fetchIn, fetch, target, uploader>>

NoPayload == [built |-> FALSE]

\* Value of a result variable whose operation has not run.
NotRun == "not run"

\* ExtractTasks has not returned yet.
NotExtracted == [returned |-> FALSE]

\* The paginated fetch before its first request.
NotFetched == [state |-> "start", page |-> 0, acc |-> 0, last |-> 0,
               pages |-> <<>>, count |-> 0, err |-> NilErr]

\* The range over the groups has not started yet.
NotGrouped == [ranged |-> FALSE]

\* ------------------------------------------------------------------------
\* Entry grouping (worklog.Entries.GroupByTask)
\* ------------------------------------------------------------------------
RECURSIVE IndicesOf(_, _, _)
IndicesOf(es, k, i) ==
    IF i > Len(es) THEN <<>>
    ELSE (IF es[i].task = k THEN <<i>> ELSE <<>>) \o IndicesOf(es, k, i + 1)

\* Mapping from task key to the entries (by position in the input) that
\* carry it, in input order.
GroupByTask(es) ==
    [k \in {es[i].task : i \in 1..Len(es)} |-> IndicesOf(es, k, 1)]

Groups == GroupByTask(entries)

\* Key of the group of the entries that carry no task.
NoTask == ""

\* Line 84: the range visits every group, and line 85 starts a goroutine
\* for each of them.
LaunchedGroupsWithTask(gs) == DOMAIN gs \ {NoTask}
LaunchedGroups(gs) == DOMAIN gs

\* ------------------------------------------------------------------------
\* The error channel
\* ------------------------------------------------------------------------
Buffered == Len(published) - received

\* The caller is blocked in a receive.
ReceiverWaiting == received < toRead

\* errChan <- v can complete: there is room in the buffer, or the channel is
\* unbuffered and the receiver is waiting (rendezvous).
CanSend == \/ Buffered < capacity
           \/ capacity = 0 /\ ReceiverWaiting

\* Effect of a completed send of v on (published, received).
DoSend(v) ==
    /\ published' = Append(published, v)
    /\ received' = IF Buffered < capacity THEN received ELSE received + 1

\* ------------------------------------------------------------------------
\* HTTPClient.Call and the pieces of UploadEntries around it
\* ------------------------------------------------------------------------
\* The context handed to HTTPClient.Call is the run's ctx: the call sees the
\* run's cancellation.
CallCtxBackground(isCancelled) == FALSE
CallCtx(isCancelled) == isCancelled

\* HTTPClient.Call with a context that is already cancelled returns a
\* cancellation error without issuing the request; otherwise the request is
\* issued and stays in flight until it is answered.
CallIssues(ctxCancelled) == ~ctxCancelled

\* The outcomes an in-flight call can end with. A request in flight when the
\* context is cancelled is not known to be aborted: it may still end with any
\* outcome, or with the cancellation error.
OutcomesOf(ctxCancelled) ==
    CallOutcomes \cup (IF ctxCancelled THEN {"canceled"} ELSE {})

\* Call blocks the goroutine until the response is there: the request is no
\* longer in flight when the goroutine goes on.
AwaitResponseAsync(fl, req) == fl
AwaitResponse(fl, req) == fl \ {req}

\* Lines 100-105: a failed issue lookup is wrapped as an upload error.
WrapLookupErr(outcome) == ErrUploadEntries

\* Lines 107-110: an undecodable issue response is wrapped as a fetch error.
WrapDecodeErr == ErrFetchEntries

\* Lines 154-156: a failed create is wrapped as an upload error, a
\* successful one leaves err nil.
WrapCreateErr(outcome) ==
    IF outcome = CallOK THEN NilErr ELSE ErrUploadEntries

\* Lines 76 and 81: after the send of the URL error the function returns.
PcAfterURLErrorFallThrough == "call"
PcAfterURLError == "failed"

\* Lines 100-104 and 107-115: a failed or undecodable lookup goes to the
\* send of its error, and continue skips the rest of the loop body.
OnLookupErrorProceed == "create"
OnLookupError == "send"

\* The entry (position in the input) group goroutine g is working on: the
\* range loop walks the group from its first entry to its last.
CurrentEntryReversed(g) == Groups[g][Len(Groups[g]) + 1 - idx[g]]
CurrentEntry(g) == Groups[g][idx[g]]

\* The loop of the goroutine after one entry's result was sent (the
\* continue statements and the end of the loop body): next entry of the
\* group, or the end of the goroutine.
AbortGroupAfterError(g, e) ==
    IF idx[g] < Len(Groups[g]) /\ e = NilErr THEN "start" ELSE "done"
PcAfterSend(g, e) ==
    IF idx[g] < Len(Groups[g]) THEN "start" ELSE "done"

\* Progress tracking (DefaultUploader.StartTracking / StopTracking), as the
\* goroutine calls it: a tracker is started for an entry and stopped with
\* an error value.
NoTracker == [e |-> 0, state |-> "idle", err |-> NilErr, stops |-> 0]
StartTracking(e) == [e |-> e, state |-> "tracking", err |-> NilErr, stops |-> 0]
StopTrackingNil(tr, e) ==
    [tr EXCEPT !.state = "stopped", !.err = NilErr, !.stops = @ + 1]
StopTracking(tr, e) ==
    [tr EXCEPT !.state = "stopped", !.err = e, !.stops = @ + 1]

\* ------------------------------------------------------------------------
\* Initial state
\* ------------------------------------------------------------------------
\* The uploader of the run is the tempo-cloud client.
TempoCloud == "tempo-cloud"

ExtractIdle == extractIn = NotRun /\ extracted = NotExtracted
GroupIdle == grouped = NotGrouped
FetchIdle == fetchIn = NotRun /\ fetch = NotFetched
Tempo == "tempo"
NilUploader == "nil"
ErrNoTargetImplementation == "no target implementation found"

\* Error of a client constructor (newClient lines 166-184).
ErrNewClient == "new client error"

\* getUploader has not been called yet.
NotCalled == [called |-> FALSE, impl |-> NilUploader, err |-> NilErr]

\* getUploader (part_000 lines 16-48): the switch on the configured target.
\* ok tells whether the constructor of the selected client succeeds.
getUploaderDefaultTempoCloud(t, ok) ==
    IF t \in {Tempo, TempoCloud} /\ ~ok
    THEN [called |-> TRUE, impl |-> NilUploader, err |-> ErrNewClient]
    ELSE IF t = Tempo
    THEN [called |-> TRUE, impl |-> Tempo, err |-> NilErr]
    ELSE [called |-> TRUE, impl |-> TempoCloud, err |-> NilErr]
getUploader(t, ok) ==
    IF t \in {Tempo, TempoCloud} /\ ~ok
    THEN [called |-> TRUE, impl |-> NilUploader, err |-> ErrNewClient]
    ELSE IF t \in {Tempo, TempoCloud}
    THEN [called |-> TRUE, impl |-> t, err |-> NilErr]
    ELSE [called |-> TRUE, impl |-> NilUploader,
          err |-> ErrNoTargetImplementation]

\* UploadEntries is a method of the tempo-cloud client: it runs on the
\* uploader that getUploader returned for that target.
HasTempoCloudUploader == uploader.called /\ uploader.impl = TempoCloud

TargetIdle ==
    /\ target = TempoCloud
    /\ uploader = [called |-> TRUE, impl |-> TempoCloud, err |-> NilErr]

DurIdle ==
    /\ entryB = 0
    /\ entryU = 0
    /\ optTreat = FALSE
    /\ optRound = FALSE
    /\ uploadEntry = NoPayload

Init ==
    /\ entries \in UNION {[1..n -> Entry] : n \in 0..MaxEntries}
    /\ capacity \in 0..MaxCap
    /\ toRead \in 0..Len(entries)
    /\ cancelled = FALSE
    /\ upPc = "call"
    /\ tasks = {}
    /\ pc = [g \in {} |-> "start"]
    /\ idx = [g \in {} |-> 1]
    /\ err = [g \in {} |-> NilErr]
    /\ inflight = [g \in {} |-> {}]
    /\ published = <<>>
    /\ received = 0
    /\ tracker = [g \in {} |-> NoTracker]
    /\ DurIdle
    /\ ExtractIdle
    /\ GroupIdle
    /\ FetchIdle
    /\ TargetIdle

\* ------------------------------------------------------------------------
\* UploadEntries itself (lines 72-85, 162-163)
\* ------------------------------------------------------------------------
\* The two URL constructions fail: the function goes to send one error.
UploadEntriesURLError ==
    /\ HasTempoCloudUploader
    /\ upPc = "call"
    /\ upPc' = "sendURLErr"
    /\ UNCHANGED <<entries, capacity, toRead, cancelled, tasks, pc, idx, err,
                   inflight, published, received, tracker>>
    /\ UNCHANGED sideVars

\* errChan <- ErrUploadEntries on lines 75 and 80, then return (upPc "failed":
\* returned on the error path).
UploadEntriesSendURLError ==
    /\ upPc = "sendURLErr"
    /\ CanSend
    /\ DoSend([e |-> 0, err |-> ErrUploadEntries])
    /\ upPc' = PcAfterURLError
    /\ UNCHANGED <<entries, capacity, toRead, cancelled, tasks, pc, idx, err,
                   inflight, tracker>>
    /\ UNCHANGED sideVars

\* Both URLs are built: one goroutine is launched per group, and the
\* function returns.
UploadEntriesLaunch ==
    /\ HasTempoCloudUploader
    /\ upPc = "call"
    /\ upPc' = "returned"
    /\ tasks' = LaunchedGroups(Groups)
    /\ pc' = [g \in LaunchedGroups(Groups) |-> "start"]
    /\ idx' = [g \in LaunchedGroups(Groups) |-> 1]
    /\ err' = [g \in LaunchedGroups(Groups) |-> NilErr]
    /\ inflight' = [g \in LaunchedGroups(Groups) |-> {}]
    /\ tracker' = [g \in LaunchedGroups(Groups) |-> NoTracker]
    /\ UNCHANGED <<entries, capacity, toRead, cancelled, published,
                   received>>
    /\ UNCHANGED sideVars

\* ------------------------------------------------------------------------
\* One group goroutine (lines 85-161)
\* ------------------------------------------------------------------------
\* Top of the loop body: StartTracking, then the issue lookup is called.
StartEntry(g) ==
    /\ pc[g] = "start"
    /\ IF CallIssues(CallCtx(cancelled))
       THEN /\ inflight' = [inflight EXCEPT
                             ![g] = @ \cup {[e |-> CurrentEntry(g), kind |-> "lookup"]}]
            /\ pc' = [pc EXCEPT ![g] = "lookup"]
            /\ err' = err
            /\ tracker' = [tracker EXCEPT ![g] = StartTracking(CurrentEntry(g))]
       ELSE /\ err' = [err EXCEPT ![g] = WrapLookupErr("canceled")]
            /\ pc' = [pc EXCEPT ![g] = "send"]
            /\ tracker' = [tracker EXCEPT
                             ![g] = StopTracking(StartTracking(CurrentEntry(g)),
                                                 WrapLookupErr("canceled"))]
            /\ UNCHANGED inflight
    /\ UNCHANGED <<entries, capacity, toRead, cancelled, upPc, tasks, idx,
                   published, received>>
    /\ UNCHANGED sideVars

\* The issue lookup returns with an error: StopTracking, then the error is
\* to be sent.
LookupFails(g) ==
    /\ pc[g] = "lookup"
    /\ \E outcome \in OutcomesOf(cancelled) \ {CallOK} :
          /\ err' = [err EXCEPT ![g] = WrapLookupErr(outcome)]
          /\ tracker' = [tracker EXCEPT
                           ![g] = StopTracking(@, WrapLookupErr(outcome))]
    /\ inflight' = [inflight EXCEPT
                      ![g] = AwaitResponse(@, [e |-> CurrentEntry(g), kind |-> "lookup"])]
    /\ pc' = [pc EXCEPT ![g] = OnLookupError]
    /\ UNCHANGED <<entries, capacity, toRead, cancelled, upPc, tasks, idx,
                   published, received>>
    /\ UNCHANGED sideVars

\* The issue lookup succeeds but its body cannot be decoded.
LookupUndecodable(g) ==
    /\ pc[g] = "lookup"
    /\ err' = [err EXCEPT ![g] = WrapDecodeErr]
    /\ tracker' = [tracker EXCEPT ![g] = StopTracking(@, WrapDecodeErr)]
    /\ inflight' = [inflight EXCEPT
                      ![g] = AwaitResponse(@, [e |-> CurrentEntry(g), kind |-> "lookup"])]
    /\ pc' = [pc EXCEPT ![g] = OnLookupError]
    /\ UNCHANGED <<entries, capacity, toRead, cancelled, upPc, tasks, idx,
                   published, received>>
    /\ UNCHANGED sideVars

\* The issue lookup succeeds and decodes: the payload is built and the
\* worklog create is called.
LookupSucceeds(g) ==
    /\ pc[g] = "lookup"
    /\ LET fl == AwaitResponse(inflight[g], [e |-> CurrentEntry(g), kind |-> "lookup"])
       IN IF CallIssues(CallCtx(cancelled))
          THEN /\ inflight' = [inflight EXCEPT
                                 ![g] = fl \cup {[e |-> CurrentEntry(g), kind |-> "create"]}]
               /\ pc' = [pc EXCEPT ![g] = "create"]
               /\ err' = err
               /\ tracker' = tracker
          ELSE /\ inflight' = [inflight EXCEPT ![g] = fl]
               /\ err' = [err EXCEPT ![g] = WrapCreateErr("canceled")]
               /\ tracker' = [tracker EXCEPT
                                ![g] = StopTracking(@, WrapCreateErr("canceled"))]
               /\ pc' = [pc EXCEPT ![g] = "send"]
    /\ UNCHANGED <<entries, capacity, toRead, cancelled, upPc, tasks, idx,
                   published, received>>
    /\ UNCHANGED sideVars

\* The worklog create returns: StopTracking with the (possibly nil) error,
\* which is then to be sent.
CreateReturns(g) ==
    /\ pc[g] = "create"
    /\ \E outcome \in OutcomesOf(cancelled) :
          /\ err' = [err EXCEPT ![g] = WrapCreateErr(outcome)]
          /\ tracker' = [tracker EXCEPT
                           ![g] = StopTracking(@, WrapCreateErr(outcome))]
    /\ inflight' = [inflight EXCEPT
                      ![g] = AwaitResponse(@, [e |-> CurrentEntry(g), kind |-> "create"])]
    /\ pc' = [pc EXCEPT ![g] = "send"]
    /\ UNCHANGED <<entries, capacity, toRead, cancelled, upPc, tasks, idx,
                   published, received>>
    /\ UNCHANGED sideVars

\* errChan <- err (lines 103, 114, 159), then the loop goes on.
SendResult(g) ==
    /\ pc[g] = "send"
    /\ CanSend
    /\ DoSend([e |-> CurrentEntry(g), err |-> err[g]])
    /\ pc' = [pc EXCEPT ![g] = PcAfterSend(g, err[g])]
    /\ idx' = [idx EXCEPT ![g] = IF idx[g] < Len(Groups[g]) THEN @ + 1 ELSE @]
    /\ err' = [err EXCEPT ![g] = NilErr]
    /\ UNCHANGED <<entries, capacity, toRead, cancelled, upPc, tasks,
                   inflight, tracker>>
    /\ UNCHANGED sideVars

\* ------------------------------------------------------------------------
\* The environment: the caller draining errChan, and the owner of ctx
\* ------------------------------------------------------------------------
\* The caller receives a buffered value.
Receive ==
    /\ ReceiverWaiting
    /\ Buffered > 0
    /\ received' = received + 1
    /\ UNCHANGED <<entries, capacity, toRead, cancelled, upPc, tasks, pc, idx,
                   err, inflight, published, tracker>>
    /\ UNCHANGED sideVars

\* ctx is cancelled.
Cancel ==
    /\ ~cancelled
    /\ cancelled' = TRUE
    /\ UNCHANGED <<entries, capacity, toRead, upPc, tasks, pc, idx, err,
                   inflight, published, received, tracker>>
    /\ UNCHANGED sideVars

Next ==
    \/ UploadEntriesURLError
    \/ UploadEntriesSendURLError
    \/ UploadEntriesLaunch
    \/ \E g \in tasks : StartEntry(g)
    \/ \E g \in tasks : LookupFails(g)
    \/ \E g \in tasks : LookupUndecodable(g)
    \/ \E g \in tasks : LookupSucceeds(g)
    \/ \E g \in tasks : CreateReturns(g)
    \/ \E g \in tasks : SendResult(g)
    \/ Receive
    \/ Cancel

Spec == Init /\ [][Next]_vars

\* ------------------------------------------------------------------------
\* Duration policy (lines 118-141), durations in ticks
\* ------------------------------------------------------------------------
\* math.Round(d.Minutes()): Minutes() is whole minutes plus the remainder
\* as a fraction, math.Round rounds half away from zero (d >= 0 here).
RoundMinutesDown(d) == d \div Minute
RoundMinutes(d) ==
    (d \div Minute) + (IF 2 * (d % Minute) >= Minute THEN 1 ELSE 0)

\* time.Second * time.Duration(math.Round(d.Minutes()) * 60)
RoundToMinuteCount(d) == Second * RoundMinutes(d)
RoundToClosestMinute(d) == Second * (RoundMinutes(d) * 60)

\* int(d.Seconds()): conversion of the float to int truncates.
WholeSecondsNearest(d) == (d + 1) \div Second
WholeSeconds(d) == d \div Second

\* Lines 118-125: billableDuration and unbillableDuration after the
\* TreatDurationAsBilled fold.
FoldedBillable(b, u, treat) == IF treat THEN u + b ELSE b
FoldedUnbillableKept(b, u, treat) == u
FoldedUnbillable(b, u, treat) == IF treat THEN 0 ELSE u

\* Lines 127-129: the two components after the optional rounding.
BillableRoundThenFold(b, u, treat, round) ==
    IF round
    THEN (IF treat
          THEN RoundToClosestMinute(b) + RoundToClosestMinute(u)
          ELSE RoundToClosestMinute(b))
    ELSE FoldedBillable(b, u, treat)
BillableDuration(b, u, treat, round) ==
    IF round THEN RoundToClosestMinute(FoldedBillable(b, u, treat))
    ELSE FoldedBillable(b, u, treat)

UnbillableDuration(b, u, treat, round) ==
    IF round THEN RoundToClosestMinute(FoldedUnbillable(b, u, treat))
    ELSE FoldedUnbillable(b, u, treat)

\* Lines 120 and 130: totalTimeSpent is the raw sum, recomputed from the
\* rounded components when rounding is on.
TotalBillableOnly(b, u, treat, round) == BillableDuration(b, u, treat, round)
TotalTimeSpent(b, u, treat, round) ==
    IF round
    THEN BillableDuration(b, u, treat, round) + UnbillableDuration(b, u, treat, round)
    ELSE b + u

\* Lines 133-141: the two duration fields of the UploadEntry payload.
BuildUploadEntry(b, u, treat, round) ==
    [built |-> TRUE,
     BillableSeconds |-> WholeSeconds(BillableDuration(b, u, treat, round)),
     TimeSpentSeconds |-> WholeSeconds(TotalTimeSpent(b, u, treat, round))]

\* The upload variables while only the duration policy is exercised.
UploadIdle ==
    /\ entries = <<>>
    /\ capacity = 0
    /\ toRead = 0
    /\ cancelled = FALSE
    /\ upPc = "call"
    /\ tasks = {}
    /\ pc = [g \in {} |-> "start"]
    /\ idx = [g \in {} |-> 1]
    /\ err = [g \in {} |-> NilErr]
    /\ inflight = [g \in {} |-> {}]
    /\ published = <<>>
    /\ received = 0
    /\ tracker = [g \in {} |-> NoTracker]

\* An entry with non-negative durations and the two upload options.
DurInit ==
    /\ UploadIdle
    /\ entryB \in 0..MaxDuration
    /\ entryU \in 0..MaxDuration
    /\ optTreat \in BOOLEAN
    /\ optRound \in BOOLEAN
    /\ uploadEntry = NoPayload
    /\ ExtractIdle
    /\ GroupIdle
    /\ FetchIdle
    /\ TargetIdle

\* The payload of the entry is built.
BuildPayload ==
    /\ uploadEntry = NoPayload
    /\ uploadEntry' = BuildUploadEntry(entryB, entryU, optTreat, optRound)
    /\ UNCHANGED <<entryB, entryU, optTreat, optRound>>
    /\ UNCHANGED upVars
    /\ UNCHANGED <<exVars, grouped, fetchVars, tgtVars>>

DurNext == BuildPayload

DurSpec == DurInit /\ [][DurNext]_vars

\* ------------------------------------------------------------------------
\* Task extraction (ExtractTasks, fetcher.go lines 90-109)
\* ------------------------------------------------------------------------
SplitAcrossTasks == "split"
FirstTaskOnly == "first-only"

\* The values MultipleTaskMode takes: the two registered modes and the
\* empty string of an option that was never set.
TaskModes == {SplitAcrossTasks, FirstTaskOnly, ""}

\* What TasksFromSummary, TasksFromTags and TasksFromProject can return for
\* an entry: up to MaxMatches task references each.
Matches == UNION {[1..n -> TaskKeys] : n \in 0..MaxMatches}

\* Lines 91-94: the tasks after the summary was looked at.
AfterSummary(in) ==
    IF in.reSummary THEN in.summary ELSE <<>>

\* Lines 96-98: the tags are looked at when their pattern is set and either
\* the mode is split or nothing was found so far.
AfterTagsOnlyIfEmpty(in) ==
    IF in.reTags /\ Len(AfterSummary(in)) = 0
    THEN AfterSummary(in) \o in.tags
    ELSE AfterSummary(in)
AfterTags(in) ==
    IF in.reTags /\ (in.mode = SplitAcrossTasks \/ Len(AfterSummary(in)) = 0)
    THEN AfterSummary(in) \o in.tags
    ELSE AfterSummary(in)

\* Lines 100-102: likewise for the project.
AfterProjectIfSet(in) ==
    IF in.reProject
    THEN AfterTags(in) \o in.project
    ELSE AfterTags(in)
AfterProject(in) ==
    IF in.reProject /\ (in.mode = SplitAcrossTasks \/ Len(AfterTags(in)) = 0)
    THEN AfterTags(in) \o in.project
    ELSE AfterTags(in)

\* Lines 104-108: first-only keeps the first task of several.
ExtractTasksKeepLast(in) ==
    IF in.mode = FirstTaskOnly /\ Len(AfterProject(in)) > 1
    THEN SubSeq(AfterProject(in), Len(AfterProject(in)), Len(AfterProject(in)))
    ELSE AfterProject(in)
ExtractTasks(in) ==
    IF in.mode = FirstTaskOnly /\ Len(AfterProject(in)) > 1
    THEN SubSeq(AfterProject(in), 1, 1)
    ELSE AfterProject(in)

\* An entry's matches per source, which patterns are set, and the mode.
ExtractInit ==
    /\ UploadIdle
    /\ DurIdle
    /\ GroupIdle
    /\ FetchIdle
    /\ TargetIdle
    /\ extractIn \in [summary : Matches, tags : Matches, project : Matches,
                      reSummary : BOOLEAN, reTags : BOOLEAN, reProject : BOOLEAN,
                      mode : TaskModes]
    /\ extracted = NotExtracted

\* ExtractTasks is called for the entry.
Extract ==
    /\ extracted = NotExtracted
    /\ extracted' = [returned |-> TRUE, tasks |-> ExtractTasks(extractIn)]
    /\ UNCHANGED extractIn
    /\ UNCHANGED upVars
    /\ UNCHANGED <<durVars, grouped, fetchVars, tgtVars>>

ExtractNext == Extract

ExtractSpec == ExtractInit /\ [][ExtractNext]_vars

\* ------------------------------------------------------------------------
\* Grouping of the entries handed to UploadEntries (line 84)
\* ------------------------------------------------------------------------
\* Entries as the grouping sees them: the task may be missing.
GroupEntry == [task : TaskKeys \cup {NoTask}]

GroupInit ==
    /\ entries \in UNION {[1..n -> GroupEntry] : n \in 0..MaxGroupLen}
    /\ capacity = 0
    /\ toRead = 0
    /\ cancelled = FALSE
    /\ upPc = "call"
    /\ tasks = {}
    /\ pc = [g \in {} |-> "start"]
    /\ idx = [g \in {} |-> 1]
    /\ err = [g \in {} |-> NilErr]
    /\ inflight = [g \in {} |-> {}]
    /\ published = <<>>
    /\ received = 0
    /\ tracker = [g \in {} |-> NoTracker]
    /\ DurIdle
    /\ ExtractIdle
    /\ GroupIdle
    /\ FetchIdle
    /\ TargetIdle

\* entries.GroupByTask() is evaluated and every group it returns is handed
\* to a goroutine of its own.
RangeGroups ==
    /\ grouped = NotGrouped
    /\ grouped' = [ranged |-> TRUE,
                   groups |-> [g \in LaunchedGroups(GroupByTask(entries)) |->
                                  GroupByTask(entries)[g]]]
    /\ UNCHANGED upVars
    /\ UNCHANGED <<durVars, exVars, fetchVars, tgtVars>>

GroupNext == RangeGroups

GroupSpec == GroupInit /\ [][GroupNext]_vars

\* ------------------------------------------------------------------------
\* Paginated fetch (the page-walking loop around PaginatedFetchOpts)
\* ------------------------------------------------------------------------
DefaultPageSize == 50

\* The total of the pagination scenario: three pages of DefaultPageSize.
ScenarioTotal == 125

Min(a, b) == IF a < b THEN a ELSE b
Max(a, b) == IF a > b THEN a ELSE b

\* Number of entries on page p of a source that holds total entries and
\* serves them perPage at a time.
ExactPage(total, perPage, p) ==
    Min(perPage, Max(0, total - (p - 1) * perPage))

\* The page sizes the source can answer a request for page p with: the
\* exact slice, or, for a source that is free to do so, anything up to the
\* page size.
PageSizes(in, p) ==
    IF in.server = "exact" THEN {ExactPage(in.total, in.perPage, p)}
    ELSE 0..in.perPage

\* Continuation check: the loop is done when the accumulated count reached
\* totalEntries or the page was empty.
FetchDoneOnEmptyOnly(acc, total, n) == n = 0
FetchDone(acc, total, n) == acc >= total \/ n = 0

\* Number of entries returned with an error: the accumulation is dropped.
EntriesOnErrorPartial(acc) == acc
EntriesOnError(acc) == 0

\* What the source holds and serves: sources of up to MaxTotal entries with
\* pages of up to MaxPageSize, and the scenario of ScenarioTotal entries
\* with pages of DefaultPageSize.
FetchInputs ==
    [total : 0..MaxTotal, perPage : 1..MaxPageSize, server : {"exact", "any"}]
        \cup {[total |-> ScenarioTotal, perPage |-> DefaultPageSize,
               server |-> "exact"]}

FetchInit ==
    /\ UploadIdle
    /\ DurIdle
    /\ ExtractIdle
    /\ GroupIdle
    /\ TargetIdle
    /\ fetchIn \in FetchInputs
    /\ fetch = NotFetched

\* Start: the request for page 1 is issued.
FetchStart ==
    /\ fetch.state = "start"
    /\ fetch' = [fetch EXCEPT !.state = "requesting", !.page = 1,
                              !.pages = <<1>>]
    /\ UNCHANGED fetchIn
    /\ UNCHANGED upVars
    /\ UNCHANGED <<durVars, exVars, grouped, tgtVars>>

\* Page received with n entries, parsed and appended; then the
\* continuation check: done, or the request for the next page.
PageReceived(n) ==
    /\ fetch.state = "requesting"
    /\ fetch' =
          IF FetchDone(fetch.acc + n, fetchIn.total, n)
          THEN [fetch EXCEPT !.state = "done", !.acc = @ + n, !.last = n,
                             !.count = fetch.acc + n]
          ELSE [fetch EXCEPT !.acc = @ + n, !.last = n, !.page = @ + 1,
                             !.pages = Append(@, fetch.page + 1)]
    /\ UNCHANGED fetchIn
    /\ UNCHANGED upVars
    /\ UNCHANGED <<durVars, exVars, grouped, tgtVars>>

\* The request for the current page fails.
PageFetchFails ==
    /\ fetch.state = "requesting"
    /\ fetch' = [fetch EXCEPT !.state = "error", !.err = ErrFetchEntries,
                              !.count = EntriesOnError(fetch.acc)]
    /\ UNCHANGED fetchIn
    /\ UNCHANGED upVars
    /\ UNCHANGED <<durVars, exVars, grouped, tgtVars>>

\* The current page arrives but cannot be parsed.
PageParseFails ==
    /\ fetch.state = "requesting"
    /\ fetch' = [fetch EXCEPT !.state = "error", !.err = ErrFetchEntries,
                              !.count = EntriesOnError(fetch.acc)]
    /\ UNCHANGED fetchIn
    /\ UNCHANGED upVars
    /\ UNCHANGED <<durVars, exVars, grouped, tgtVars>>

FetchNext ==
    \/ FetchStart
    \/ \E n \in PageSizes(fetchIn, fetch.page) : PageReceived(n)
    \/ PageFetchFails
    \/ PageParseFails

FetchSpec == FetchInit /\ [][FetchNext]_vars

\* The loop is one synchronous call: it keeps running, and every request
\* it makes returns with a page or with an error.
FetchLiveSpec == FetchSpec /\ WF_vars(FetchNext)

\* ------------------------------------------------------------------------
\* Selection of the uploader (getUploader), followed by the upload
\* ------------------------------------------------------------------------
\* Values of the "target" setting: the two supported ones, the unset
\* setting, another provider, and a supported name in another case.
Targets == {Tempo, TempoCloud, "", "toggl", "Tempo-Cloud"}

TargetInit ==
    /\ entries \in UNION {[1..n -> Entry] : n \in 0..MaxTargetEntries}
    /\ capacity \in 0..MaxCap
    /\ toRead \in 0..Len(entries)
    /\ cancelled = FALSE
    /\ upPc = "call"
    /\ tasks = {}
    /\ pc = [g \in {} |-> "start"]
    /\ idx = [g \in {} |-> 1]
    /\ err = [g \in {} |-> NilErr]
    /\ inflight = [g \in {} |-> {}]
    /\ published = <<>>
    /\ received = 0
    /\ tracker = [g \in {} |-> NoTracker]
    /\ DurIdle
    /\ ExtractIdle
    /\ GroupIdle
    /\ FetchIdle
    /\ target \in Targets
    /\ uploader = NotCalled

\* getUploader is called; the constructor of the selected client succeeds
\* or fails.
GetUploader ==
    /\ ~uploader.called
    /\ \E ok \in BOOLEAN : uploader' = getUploader(target, ok)
    /\ UNCHANGED target
    /\ UNCHANGED upVars
    /\ UNCHANGED <<durVars, exVars, grouped, fetchVars>>

TargetNext ==
    \/ GetUploader
    \/ Next

TargetSpec == TargetInit /\ [][TargetNext]_vars

\* ------------------------------------------------------------------------
\* Properties of the upload
\* ------------------------------------------------------------------------
\* UploadEntries has returned and every goroutine it launched has ended.
Quiescent ==
    /\ upPc \in {"returned", "failed"}
    /\ \A g \in tasks : pc[g] = "done"

\* Positions of published that carry the result of input entry i.
ResultsOf(i) == {k \in DOMAIN published : published[k].e = i}

\* The group (task key) input entry i belongs to.
GroupOf(i) == entries[i].task

\* The entries of group g whose results were published, in publication
\* order.
RECURSIVE PublishedOfFrom(_, _)
PublishedOfFrom(g, k) ==
    IF k > Len(published) THEN <<>>
    ELSE (IF published[k].e # 0 /\ GroupOf(published[k].e) = g
          THEN <<published[k].e>> ELSE <<>>) \o PublishedOfFrom(g, k + 1)
PublishedOf(g) == PublishedOfFrom(g, 1)

\* Position of input entry i within its group.
PosInGroup(i) ==
    CHOOSE k \in 1..Len(Groups[GroupOf(i)]) : Groups[GroupOf(i)][k] = i

\* C1: for an entry sequence of length N, exactly N results are published,
\* one per entry: never more than N at any time, and exactly one for each
\* entry once UploadEntries has returned and all its goroutines have ended,
\* the failure to build the request URLs included.
C1_ExactlyOneResultPerEntry ==
    /\ Len(published) <= Len(entries)
    /\ Quiescent =>
          /\ Len(published) = Len(entries)
          /\ \A i \in 1..Len(entries) : Cardinality(ResultsOf(i)) = 1

\* C2: a per-entry failure does not abort the batch: a group goroutine ends
\* only after every entry of its group got its own result, whatever the
\* results of the earlier entries were (in the same group or in another
\* one); until then exactly the entries it has gone through have a result.
C2_FailureDoesNotAbortBatch ==
    \A g \in tasks :
        /\ pc[g] = "done" =>
              \A k \in 1..Len(Groups[g]) :
                  Cardinality(ResultsOf(Groups[g][k])) = 1
        /\ pc[g] # "done" =>
              \A k \in 1..Len(Groups[g]) :
                  Cardinality(ResultsOf(Groups[g][k])) = (IF k < idx[g] THEN 1 ELSE 0)

\* C2 witness: a group whose first entry failed has gone on to a later
\* entry that succeeded, and another group has completed as well.
C2_Witness ==
    \E g \in tasks, h \in tasks :
        /\ g # h
        /\ pc[g] = "done" /\ pc[h] = "done"
        /\ Len(Groups[g]) >= 2
        /\ \E k \in ResultsOf(Groups[g][1]) : published[k].err # NilErr
        /\ \E k \in ResultsOf(Groups[g][2]) : published[k].err = NilErr

\* C3: each group goroutine has at most one request in flight, and one
\* goroutine is launched per group returned by GroupByTask.
C3_OneRequestInFlightPerGroup ==
    /\ \A g \in tasks : Cardinality(inflight[g]) <= 1
    /\ upPc = "returned" => tasks = DOMAIN GroupByTask(entries)
    /\ upPc # "returned" => tasks = {}

\* C3 witness: requests of two different groups are in flight at the same
\* time, one of them a lookup and the other a create.
C3_Witness ==
    \E g \in tasks, h \in tasks :
        /\ g # h
        /\ \E r \in inflight[g] : r.kind = "lookup"
        /\ \E r \in inflight[h] : r.kind = "create"

\* C4: the results of one group are published in the order of the group's
\* entries, and a request for an entry is in flight only after the results
\* of all earlier entries of its group were published.
C4_IntraGroupOrder ==
    /\ \A g \in tasks :
          PublishedOf(g) = SubSeq(Groups[g], 1, Len(PublishedOf(g)))
    /\ \A g \in tasks :
          \A r \in inflight[g] :
              \A k \in 1..(PosInGroup(r.e) - 1) :
                  ResultsOf(Groups[g][k]) # {}

\* C4 witness: results of two groups interleave: a result of another group
\* lies between two results of one group.
C4_Witness ==
    \E p, q, r \in DOMAIN published :
        /\ p < q /\ q < r
        /\ published[p].e # 0 /\ published[q].e # 0 /\ published[r].e # 0
        /\ GroupOf(published[p].e) = GroupOf(published[r].e)
        /\ GroupOf(published[q].e) # GroupOf(published[p].e)

C6_CancelledRunPublishesAll ==
    (cancelled /\ Quiescent) =>
        /\ Len(published) = Len(entries)
        /\ \A i \in 1..Len(entries) : Cardinality(ResultsOf(i)) = 1

\* C7: no group goroutine stays blocked forever on its send. A goroutine at
\* its send is blocked forever exactly when the send cannot complete now and
\* the caller will receive nothing more (nothing else changes the channel),
\* so the claim is that no such state is reached; it is stated here for the
\* runs that are never cancelled.
C7_NoSendBlockedForever ==
    \A g \in tasks :
        (pc[g] = "send" /\ ~cancelled) => (CanSend \/ ReceiverWaiting)

\* ------------------------------------------------------------------------
\* Properties of the duration policy (checked under DurSpec)
\* ------------------------------------------------------------------------
\* Round-half-up of a duration to whole minutes, as the specification
\* words it: floor(d / 60 s + 1/2).
HalfUpMinutes(d) == (2 * d + Minute) \div (2 * Minute)

\* Seconds as ticks.
Sec(n) == n * Second

\* C8: with both options set the durations are folded first and rounded
\* second: billableSeconds = timeSpentSeconds =
\* 60 * round-half-up((billable + unbillable) / 60 s).
C8_FoldThenRound ==
    (uploadEntry.built /\ optTreat /\ optRound) =>
        /\ uploadEntry.BillableSeconds = 60 * HalfUpMinutes(entryB + entryU)
        /\ uploadEntry.TimeSpentSeconds = 60 * HalfUpMinutes(entryB + entryU)

\* C8 witness: billable 29 s and unbillable 30 s, both options set, are
\* transmitted as 60 and 60.
C8_Witness ==
    /\ uploadEntry.built /\ optTreat /\ optRound
    /\ entryB = Sec(29) /\ entryU = Sec(30)
    /\ uploadEntry.BillableSeconds = 60
    /\ uploadEntry.TimeSpentSeconds = 60

C10_TotalConserved ==
    uploadEntry.built =>
        /\ uploadEntry.TimeSpentSeconds = WholeSeconds(entryB + entryU)
        /\ uploadEntry.BillableSeconds >= 0
        /\ uploadEntry.TimeSpentSeconds >= 0

\* C10 amended: with roundToClosestMinute unset (either value of
\* treatDurationAsBilled) the time spent reported is billable + unbillable
\* in whole seconds; with it set the time spent is the sum of the
\* minute-rounded components, a multiple of 60 within 60 s of the raw total;
\* no transmitted duration is negative.
C10_TotalConservedUnlessRounded ==
    uploadEntry.built =>
        /\ ~optRound =>
              uploadEntry.TimeSpentSeconds = WholeSeconds(entryB + entryU)
        /\ optRound =>
              /\ uploadEntry.TimeSpentSeconds % 60 = 0
              /\ Sec(uploadEntry.TimeSpentSeconds) - (entryB + entryU) <= Sec(60)
              /\ (entryB + entryU) - Sec(uploadEntry.TimeSpentSeconds) <= Sec(60)
        /\ uploadEntry.BillableSeconds >= 0
        /\ uploadEntry.TimeSpentSeconds >= 0

\* C10 witness: rounding alone turns 0 + 30 s into 60 seconds spent.
C10_Witness ==
    /\ uploadEntry.built /\ optRound /\ ~optTreat
    /\ entryB = 0 /\ entryU = Sec(30)
    /\ uploadEntry.TimeSpentSeconds = 60

\* A duration that is a whole number of minutes.
MinuteAligned(d) == d % Minute = 0

\* C11: rounding leaves minute-aligned input unchanged (with billable and
\* unbillable both whole minutes the payload built with rounding set is the
\* one built without it: the folded billable and the raw total, in seconds),
\* and rounding a rounded duration changes nothing, for any input.
C11_RoundingIdempotent ==
    (uploadEntry.built /\ optRound) =>
        /\ (MinuteAligned(entryB) /\ MinuteAligned(entryU)) =>
              /\ Sec(uploadEntry.BillableSeconds) =
                    (IF optTreat THEN entryB + entryU ELSE entryB)
              /\ Sec(uploadEntry.TimeSpentSeconds) = entryB + entryU
        /\ \A d \in {entryB, entryU, entryB + entryU} :
              RoundToClosestMinute(RoundToClosestMinute(d)) = RoundToClosestMinute(d)

\* C11 witness: one whole minute billable and one unbillable, rounding set,
\* are transmitted as 60 and 120.
C11_Witness ==
    /\ uploadEntry.built /\ optRound /\ ~optTreat
    /\ entryB = Sec(60) /\ entryU = Sec(60)
    /\ uploadEntry.BillableSeconds = 60
    /\ uploadEntry.TimeSpentSeconds = 120

\* ------------------------------------------------------------------------
\* Properties of the task extraction (checked under ExtractSpec)
\* ------------------------------------------------------------------------
\* The matches a source contributes when its pattern is configured.
SummaryMatches == IF extractIn.reSummary THEN extractIn.summary ELSE <<>>
TagMatches == IF extractIn.reTags THEN extractIn.tags ELSE <<>>
ProjectMatches == IF extractIn.reProject THEN extractIn.project ELSE <<>>

\* First element of a sequence as a sequence, empty for the empty sequence.
FirstOf(q) == IF Len(q) = 0 THEN <<>> ELSE <<q[1]>>

\* C12: in mode first-only at most one task is returned, and it is the
\* first match of the highest-priority configured source that matches at
\* all: summary before tags before project.
C12_FirstOnlyPriority ==
    (extracted.returned /\ extractIn.mode = FirstTaskOnly) =>
        /\ Len(extracted.tasks) <= 1
        /\ extracted.tasks =
              (IF Len(SummaryMatches) > 0 THEN FirstOf(SummaryMatches)
               ELSE IF Len(TagMatches) > 0 THEN FirstOf(TagMatches)
               ELSE FirstOf(ProjectMatches))

\* C12 witness: all three patterns are set and all three sources match,
\* the summary with two tasks and the others with a different first task;
\* the first summary match is returned.
C12_Witness ==
    /\ extracted.returned
    /\ extractIn.mode = FirstTaskOnly
    /\ extractIn.reSummary /\ extractIn.reTags /\ extractIn.reProject
    /\ Len(extractIn.summary) = 2
    /\ extractIn.summary[1] # extractIn.summary[2]
    /\ Len(extractIn.tags) > 0 /\ extractIn.tags[1] # extractIn.summary[1]
    /\ Len(extractIn.project) > 0 /\ extractIn.project[1] # extractIn.summary[1]
    /\ extracted.tasks = <<extractIn.summary[1]>>

\* C13: in mode split the result is the concatenation, in the order
\* summary, tags, project, of the matches of every configured source;
\* unconfigured sources contribute nothing.
C13_SplitConcatenation ==
    (extracted.returned /\ extractIn.mode = SplitAcrossTasks) =>
        extracted.tasks = SummaryMatches \o TagMatches \o ProjectMatches

\* C13 witness: all three patterns are set, every source matches, and all
\* the matches are returned.
C13_Witness ==
    /\ extracted.returned
    /\ extractIn.mode = SplitAcrossTasks
    /\ extractIn.reSummary /\ extractIn.reTags /\ extractIn.reProject
    /\ Len(extractIn.summary) > 0
    /\ Len(extractIn.tags) > 0
    /\ Len(extractIn.project) > 0
    /\ Len(extracted.tasks) =
          Len(extractIn.summary) + Len(extractIn.tags) + Len(extractIn.project)

\* ------------------------------------------------------------------------
\* Properties of the grouping (checked under GroupSpec)
\* ------------------------------------------------------------------------
\* The places (group, position in the group) where input entry i occurs.
PlacesOf(i) ==
    {gk \in UNION {{<<g, k>> : k \in 1..Len(grouped.groups[g])} :
                      g \in DOMAIN grouped.groups} :
        grouped.groups[gk[1]][gk[2]] = i}

\* Sum of the sizes of the groups whose keys are in ks.
RECURSIVE SumOfSizes(_)
SumOfSizes(ks) ==
    IF ks = {} THEN 0
    ELSE LET k == CHOOSE x \in ks : TRUE
         IN  Len(grouped.groups[k]) + SumOfSizes(ks \ {k})

\* C14: the groups handed to the goroutines partition the input: every
\* entry is in exactly one group, the one of its task; the sizes sum to the
\* number of entries; a group keeps the input order; the entries without a
\* task are all in the one group NoTask.
C14_GroupingPartitions ==
    grouped.ranged =>
        /\ \A i \in 1..Len(entries) :
              /\ Cardinality(PlacesOf(i)) = 1
              /\ \A gk \in PlacesOf(i) : gk[1] = entries[i].task
        /\ SumOfSizes(DOMAIN grouped.groups) = Len(entries)
        /\ \A g \in DOMAIN grouped.groups :
              \A k, l \in 1..Len(grouped.groups[g]) :
                  k < l => grouped.groups[g][k] < grouped.groups[g][l]
        /\ \A i \in 1..Len(entries) :
              entries[i].task = NoTask =>
                  \E k \in 1..Len(grouped.groups[NoTask]) :
                      grouped.groups[NoTask][k] = i

\* C14 witness: two entries without a task, separated in the input by an
\* entry with a task, end up together and in input order in the group
\* NoTask, next to the group of that task.
C14_Witness ==
    /\ grouped.ranged
    /\ Len(entries) >= 3
    /\ entries[1].task = NoTask
    /\ entries[2].task # NoTask
    /\ entries[3].task = NoTask
    /\ NoTask \in DOMAIN grouped.groups
    /\ SubSeq(grouped.groups[NoTask], 1, 2) = <<1, 3>>
    /\ entries[2].task \in DOMAIN grouped.groups

\* ------------------------------------------------------------------------
\* Properties of the paginated fetch (checked under FetchSpec and
\* FetchLiveSpec)
\* ------------------------------------------------------------------------
FetchTerminated == fetch.state \in {"done", "error"}

\* Number of pages needed to serve total entries perPage at a time, one
\* page at least.
PagesNeeded(total, perPage) ==
    Max(1, (total + perPage - 1) \div perPage)

\* The pages requested are 1, 2, ..., in this order; the loop goes on only
\* while the count is below totalEntries and the last page was not empty,
\* and is done only when one of the two happened; against a source that
\* serves exact pages it ends with all the entries after the needed number
\* of requests; the number of requests never exceeds totalEntries (one for
\* an empty source).
C15_LoopShape ==
    /\ \A k \in 1..Len(fetch.pages) : fetch.pages[k] = k
    /\ (fetch.state = "requesting" /\ fetch.page > 1) =>
          (fetch.acc < fetchIn.total /\ fetch.last > 0)
    /\ fetch.state = "done" =>
          /\ fetch.acc >= fetchIn.total \/ fetch.last = 0
          /\ fetch.count = fetch.acc
    /\ (fetch.state = "done" /\ fetchIn.server = "exact") =>
          /\ fetch.count = fetchIn.total
          /\ Len(fetch.pages) = PagesNeeded(fetchIn.total, fetchIn.perPage)
    /\ Len(fetch.pages) <= Max(1, fetchIn.total)

\* C15: the fetch loop starts at page 1, requests strictly increasing
\* pages, stops as soon as the accumulated count reaches totalEntries or a
\* page is empty (3 requests and 125 entries for totalEntries=125 and
\* entriesPerPage=50), and always terminates.
C15_PaginationTerminates ==
    []C15_LoopShape /\ <>FetchTerminated

\* C15 witness: the scenario of 125 entries in pages of 50 is done after 3
\* requests with 125 entries.
C15_Witness ==
    /\ fetchIn.total = 125
    /\ fetchIn.perPage = 50
    /\ fetch.state = "done"
    /\ fetch.pages = <<1, 2, 3>>
    /\ fetch.count = 125

\* C16: a failed fetch or parse of any page ends the fetch with an error
\* and no entries; an error never comes with entries, the failed page is
\* not requested again, and nothing is requested after the failure.
C16_FetchAllOrNothing ==
    /\ [](fetch.state = "error" => (fetch.err # NilErr /\ fetch.count = 0))
    /\ [](fetch.err # NilErr => (fetch.state = "error" /\ fetch.count = 0))
    /\ [][fetch.state = "error" => fetch' = fetch]_vars
    /\ [][fetch'.state = "error" => fetch'.pages = fetch.pages]_vars

\* C16 witness: a page after the first fails when entries of earlier pages
\* were already accumulated, and the fetch returns the error and no entry.
C16_Witness ==
    /\ fetch.state = "error"
    /\ fetch.page >= 2
    /\ fetch.acc > 0
    /\ fetch.count = 0
    /\ fetch.err = ErrFetchEntries

\* ------------------------------------------------------------------------
\* Properties of the uploader selection (checked under TargetSpec)
\* ------------------------------------------------------------------------
NoUploadActivity ==
    /\ upPc = "call"
    /\ tasks = {}
    /\ published = <<>>
    /\ \A g \in DOMAIN inflight : inflight[g] = {}

\* C17: for every target other than "tempo" and "tempo-cloud" getUploader
\* returns no uploader and ErrNoTargetImplementation, and in that run no
\* group goroutine is launched and no request is issued.
C17_UnsupportedTargetRejected ==
    target \notin {Tempo, TempoCloud} =>
        /\ uploader.called =>
              /\ uploader.impl = NilUploader
              /\ uploader.err = ErrNoTargetImplementation
        /\ NoUploadActivity

\* C17 witness: getUploader was called for an unsupported target in a run
\* that has entries to upload, and returned ErrNoTargetImplementation.
C17_Witness ==
    /\ target = "toggl"
    /\ Len(entries) > 0
    /\ uploader.called
    /\ uploader.impl = NilUploader
    /\ uploader.err = ErrNoTargetImplementation
    /\ NoUploadActivity

\* ------------------------------------------------------------------------
\* Properties of the progress tracking (checked under Spec)
\* ------------------------------------------------------------------------
\* The tracker of a goroutine whose current entry was stopped once with
\* error e.
StoppedOnceWith(g, i, e) ==
    tracker[g] = [e |-> i, state |-> "stopped", err |-> e, stops |-> 1]

\* While a request of an entry is in flight the entry is being tracked and
\* was not stopped; at the send the entry was stopped exactly once, with
\* the error about to be sent.
C18_TrackerState ==
    \A g \in tasks :
        /\ tracker[g].stops <= 1
        /\ \A r \in inflight[g] :
              tracker[g] = [e |-> r.e, state |-> "tracking", err |-> NilErr,
                            stops |-> 0]
        /\ pc[g] = "send" => StoppedOnceWith(g, CurrentEntry(g), err[g])

\* Every publication of an entry's result happens when the tracking of
\* that entry was already stopped, once, with the error published.
C18_StopBeforePublish ==
    Len(published') > Len(published) =>
        LET res == published'[Len(published')]
        IN  res.e # 0 => StoppedOnceWith(GroupOf(res.e), res.e, res.err)

\* C18: for each entry the tracking is started before any request for the
\* entry is issued, is stopped exactly once with the error value that is
\* then published (nil on success), and the stop precedes the publication
\* on every path.
C18_TrackingBracketsEntry ==
    []C18_TrackerState /\ [][C18_StopBeforePublish]_vars

\* C18 witness: one goroutine has stopped the tracking of an entry with
\* the decode error and stands at its send, while another has published a
\* success whose tracking was stopped with nil.
C18_Witness ==
    \E g \in tasks, h \in tasks :
        /\ g # h
        /\ pc[g] = "send"
        /\ StoppedOnceWith(g, CurrentEntry(g), WrapDecodeErr)
        /\ pc[h] = "done"
        /\ StoppedOnceWith(h, CurrentEntry(h), NilErr)
        /\ \E k \in ResultsOf(CurrentEntry(h)) : published[k].err = NilErr

\* C19: every result published by the uploader is nil or an upload error
\* (ErrUploadEntries), whatever its cause; none is a fetch error.
C19_OnlyUploadErrors ==
    \A k \in DOMAIN published : published[k].err \in {NilErr, ErrUploadEntries}

\* ------------------------------------------------------------------------
\* Properties of the transmitted second counts (checked under DurSpec)
\* ------------------------------------------------------------------------
\* Nearest whole number of seconds of a non-negative duration, halves
\* rounded up.
NearestSecond(d) == (2 * d + Second) \div (2 * Second)

\* n is the number of whole seconds contained in duration d.
IsFloorSeconds(n, d) == n * Second <= d /\ d < (n + 1) * Second

\* C20: with roundToClosestMinute unset, the transmitted second counts
\* are the nearest-integer roundings of the (possibly folded) billable and
\* total durations; 1.5 s is transmitted as 2.
C20_SecondsRoundedToNearest ==
    (uploadEntry.built /\ ~optRound) =>
        /\ uploadEntry.BillableSeconds =
              NearestSecond(FoldedBillable(entryB, entryU, optTreat))
        /\ uploadEntry.TimeSpentSeconds = NearestSecond(entryB + entryU)

\* C20 as the code has it: the transmitted second counts are the whole
\* seconds contained in the (possibly folded and minute-rounded) billable
\* and total durations, the fraction of a second dropped.
C20_SecondsTruncated ==
    uploadEntry.built =>
        /\ IsFloorSeconds(uploadEntry.BillableSeconds,
                          BillableDuration(entryB, entryU, optTreat, optRound))
        /\ IsFloorSeconds(uploadEntry.TimeSpentSeconds,
                          TotalTimeSpent(entryB, entryU, optTreat, optRound))

\* C20 witness: a billable duration of 1.5 s, no fold and no minute
\* rounding, is transmitted as 1 second.
C20_Witness ==
    /\ uploadEntry.built
    /\ ~optRound /\ ~optTreat
    /\ entryB = 3 /\ entryU = 0
    /\ uploadEntry.BillableSeconds = 1
    /\ uploadEntry.TimeSpentSeconds = 1

\* ------------------------------------------------------------------------
\* Properties of the URL failure path and of the per-entry request order
\* (checked under Spec)
\* ------------------------------------------------------------------------
\* The result sent by UploadEntries itself when a URL cannot be built.
URLErrorResult == [e |-> 0, err |-> ErrUploadEntries]

URLErrorPublished == \E k \in DOMAIN published : published[k] = URLErrorResult

\* C21: when a request URL cannot be built, UploadEntries publishes one
\* error and nothing else, launches no group goroutine and issues no
\* request, however many entries it was given.
C21_URLErrorPublishesOne ==
    /\ (upPc \in {"sendURLErr", "failed"} \/ URLErrorPublished) =>
          /\ tasks = {}
          /\ DOMAIN inflight = {}
          /\ Len(published) <= 1
    /\ upPc = "sendURLErr" => published = <<>>
    /\ upPc = "failed" => published = <<URLErrorResult>>
    /\ URLErrorPublished => upPc = "failed"

\* C21 witness: UploadEntries was given several entries, failed to build a
\* URL, and returned after publishing the one error.
C21_Witness ==
    /\ Len(entries) >= 2
    /\ upPc = "failed"
    /\ published = <<URLErrorResult>>
    /\ tasks = {}

\* The requests of the entry a goroutine is working on.
LookupOf(g) == [e |-> CurrentEntry(g), kind |-> "lookup"]
CreateOf(g) == [e |-> CurrentEntry(g), kind |-> "create"]

\* What is in flight at each position of a goroutine: the lookup of the
\* current entry while it is awaited, its create while that is awaited,
\* nothing elsewhere.
C22_RequestsByPosition ==
    \A g \in tasks :
        /\ pc[g] = "lookup" => inflight[g] = {LookupOf(g)}
        /\ pc[g] = "create" => inflight[g] = {CreateOf(g)}
        /\ pc[g] \in {"start", "send", "done"} => inflight[g] = {}

\* A lookup is issued only at the start of the current entry; a create is
\* issued only in the step in which the lookup of that entry returns
\* decoded; a lookup that fails or does not decode leads to the send of an
\* error with no create issued; a result is published only from the send;
\* and the goroutine comes back to a start only for the next entry.
C22_RequestSteps ==
    \A g \in tasks :
        /\ \A r \in inflight'[g] \ inflight[g] :
              /\ r.kind = "lookup" => (pc[g] = "start" /\ r = LookupOf(g))
              /\ r.kind = "create" =>
                    /\ pc[g] = "lookup"
                    /\ LookupOf(g) \in inflight[g]
                    /\ r = CreateOf(g)
        /\ (pc[g] = "lookup" /\ pc'[g] # "lookup") =>
              \/ pc'[g] = "create" /\ err'[g] = NilErr
              \/ pc'[g] = "send" /\ err'[g] # NilErr /\ inflight'[g] = {}
        /\ (pc[g] = "send" /\ pc'[g] # "send") =>
              /\ published' = Append(published,
                                     [e |-> CurrentEntry(g), err |-> err[g]])
              /\ \/ pc'[g] = "done" /\ idx[g] = Len(Groups[g])
                 \/ pc'[g] = "start" /\ idx'[g] = idx[g] + 1
        /\ pc[g] # "send" => idx'[g] = idx[g]

\* C22: per entry the create is issued only after the lookup of that entry
\* succeeded and decoded; a failed or undecodable lookup yields one error
\* result and no create, and the goroutine moves on; so per entry at most
\* one lookup and at most one create are issued, in this order.
C22_CreateOnlyAfterLookup ==
    []C22_RequestsByPosition /\ [][C22_RequestSteps]_vars

\* C22 witness: the lookup of the first entry of a group did not decode,
\* its error was published, and the goroutine has the create of the second
\* entry in flight.
C22_Witness ==
    \E g \in tasks :
        /\ idx[g] = 2
        /\ pc[g] = "create"
        /\ inflight[g] = {CreateOf(g)}
        /\ \E k \in ResultsOf(Groups[g][1]) : published[k].err = WrapDecodeErr

\* C23: UploadEntries never waits on the result channel: wherever it
\* stands, it can go on without a receiver being ready, and every result
\* is sent by a group goroutine.
C23_UploadEntriesNeverWaits ==
    /\ upPc = "sendURLErr" => Buffered < capacity
    /\ \A k \in DOMAIN published : published[k].e # 0

\* ------------------------------------------------------------------------
\* Bounds of the transmitted second counts (checked under DurSpec)
\* ------------------------------------------------------------------------
\* Distance between two durations.
Dist(a, b) == IF a >= b THEN a - b ELSE b - a

C25_UnknownModeSelectsWithoutTruncation ==
    (extracted.returned /\ extractIn.mode \notin {SplitAcrossTasks, FirstTaskOnly}) =>
        extracted.tasks =
            (IF Len(SummaryMatches) > 0 THEN SummaryMatches
             ELSE IF Len(TagMatches) > 0 THEN TagMatches
             ELSE ProjectMatches)

\* C25 witness: with the mode unset, two summary matches are returned
\* although tags and project match as well: neither the concatenation of
\* split nor the single task of first-only.
C25_Witness ==
    /\ extracted.returned
    /\ extractIn.mode = ""
    /\ extractIn.reSummary /\ extractIn.reTags /\ extractIn.reProject
    /\ Len(extractIn.summary) = 2
    /\ Len(extractIn.tags) > 0
    /\ Len(extractIn.project) > 0
    /\ extracted.tasks = extractIn.summary
    /\ extracted.tasks # SummaryMatches \o TagMatches \o ProjectMatches
    /\ extracted.tasks # FirstOf(SummaryMatches)

====
